---------------------------- MODULE Spec2Model ----------------------------
(***************************************************************************)
(* A model of btcli's Secp256k1 private key (src/key/private_key.rs):      *)
(* PrivateKey::from_str and the five serialisations of the key buffer.     *)
(*                                                                         *)
(* A Rust `char` is modelled by its code point, a `&str`/`String` by the   *)
(* sequence of its chars, a `u8` by a number in 0..255 and a `Vec<u8>` by  *)
(* a sequence of such numbers.  `str::len` is the length of the UTF-8      *)
(* encoding, which differs from the number of chars for non-ASCII text.    *)
(*                                                                         *)
(* Loops over a buffer are written as recursions that split the index      *)
(* range in two, so that their depth is logarithmic in the buffer length;  *)
(* they compute what the sequential loop computes.                         *)
(***************************************************************************)
EXTENDS Integers, Sequences, FiniteSets, TLC

(***************************************************************************)
(* Bounds of the model.                                                    *)
(***************************************************************************)
\* Longest "short" input enumerated over the whole alphabet.
MaxLen == 2
\* Most as_wif / as_wif_compressed calls made on one key.
MaxCalls == 2

(***************************************************************************)
(* Text helpers.                                                           *)
(***************************************************************************)
\* v, once x has been evaluated: the accumulator of a loop is computed
\* before the rest of the loop runs, not on demand at its end.
After(x, v) == IF x = x THEN v ELSE v

\* n copies of x.
Repeat(x, n) == [i \in 1..n |-> x]

Reverse(s) == [i \in 1..Len(s) |-> s[Len(s) + 1 - i]]

\* The UTF-8 encoding of one char (code points below 2048 only).
Utf8Char(c) == IF c < 128 THEN << c >>
               ELSE << 192 + (c \div 64), 128 + (c % 64) >>

RECURSIVE Utf8Range(_, _, _)
\* The UTF-8 encoding of chars lo..hi of s.
Utf8Range(s, lo, hi) ==
    IF lo > hi THEN << >>
    ELSE IF lo = hi THEN Utf8Char(s[lo])
    ELSE LET mid == (lo + hi) \div 2
         IN  Utf8Range(s, lo, mid) \o Utf8Range(s, mid + 1, hi)

\* The bytes of a string: what `as_ref::<[u8]>()` sees.
Utf8(s) == Utf8Range(s, 1, Len(s))

\* str::len(): the number of bytes, not of chars.
str_len(s) == Len(Utf8(s))

\* format!("{:0>width$}", s, width = w): fill '0', align right; the width
\* is counted in chars (core::fmt pads by s.chars().count()).
format_pad(s, w) == IF Len(s) >= w THEN s ELSE Repeat(48, w - Len(s)) \o s

(***************************************************************************)
(* The hex crate: hex::decode and hex::encode.                             *)
(***************************************************************************)
\* hex's val(): the value of one hex digit byte, -1 when it is none.
HexVal(b) == IF b >= 48 /\ b <= 57 THEN b - 48
             ELSE IF b >= 65 /\ b <= 70 THEN b - 65 + 10
             ELSE IF b >= 97 /\ b <= 102 THEN b - 97 + 10
             ELSE 0 - 1

NoErr == [kind |-> "None", c |-> 0, index |-> 0]

\* hex::decode(s): OddLength first; then the pairs in order, which stops at
\* the first byte that is no hex digit with InvalidHexCharacter { c, index },
\* c being that byte as a char and index its 0-based place among the bytes.
hex_decode(s) ==
    LET bs == Utf8(s)
        bad == {i \in 1..Len(bs) : HexVal(bs[i]) < 0}
    IN  IF Len(bs) % 2 # 0
        THEN [err |-> [kind |-> "OddLength", c |-> 0, index |-> 0], bytes |-> << >>]
        ELSE IF bad # {}
        THEN LET first == CHOOSE i \in bad : \A j \in bad : i <= j
             IN  [err |-> [kind |-> "InvalidHexCharacter", c |-> bs[first],
                           index |-> first - 1],
                  bytes |-> << >>]
        ELSE [err |-> NoErr,
              bytes |-> [k \in 1..(Len(bs) \div 2) |->
                            HexVal(bs[2 * k - 1]) * 16 + HexVal(bs[2 * k])]]

\* One lowercase hex digit (hex's HEX_CHARS_LOWER).
HexDigit(v) == IF v < 10 THEN 48 + v ELSE 97 + (v - 10)

\* hex::encode(bytes): two lowercase digits per byte, the high one first.
hex_encode(bytes) ==
    [i \in 1..(2 * Len(bytes)) |->
        IF i % 2 = 1 THEN HexDigit(bytes[(i + 1) \div 2] \div 16)
        ELSE HexDigit(bytes[i \div 2] % 16)]

\* ToByteArray for String: hex::decode(self).unwrap().
to_byte_array(s) == hex_decode(s).bytes

(***************************************************************************)
(* The curve order.                                                        *)
(***************************************************************************)
\* "FFFFFFFFFFFFFFFFFFFFFFFFFFFFFFFEBAAEDCE6AF48A03BBFD25E8CD0364141"
N == << 70, 70, 70, 70, 70, 70, 70, 70, 70, 70, 70, 70, 70, 70, 70, 70,
        70, 70, 70, 70, 70, 70, 70, 70, 70, 70, 70, 70, 70, 70, 70, 69,
        66, 65, 65, 69, 68, 67, 69, 54, 65, 70, 52, 56, 65, 48, 51, 66,
        66, 70, 68, 50, 53, 69, 56, 67, 68, 48, 51, 54, 52, 49, 52, 49 >>

\* N.to_string().to_byte_array()
N_bytes == to_byte_array(N)

(***************************************************************************)
(* The Key trait of Vec<u8>.                                               *)
(***************************************************************************)
\* Vec::from_str(&str) -> Result<Vec<u8>, hex::FromHexError>
Key_from_str(s) == hex_decode(s)

\* self.key.as_hex_string()
Key_as_hex_string(bytes) == hex_encode(bytes)

\* `a < b` of Vec<u8>: lexicographic; the first byte that differs decides,
\* and a proper prefix is less.
VecLess(a, b) ==
    LET m == IF Len(a) < Len(b) THEN Len(a) ELSE Len(b)
        diff == {i \in 1..m : a[i] # b[i]}
    IN  IF diff = {} THEN Len(a) < Len(b)
        ELSE LET first == CHOOSE i \in diff : \A j \in diff : i <= j
             IN  a[first] < b[first]

(***************************************************************************)
(* PrivateKey::from_str.                                                   *)
(***************************************************************************)
Ok(k) == [tag |-> "Ok", key |-> k, err |-> NoErr]
Err(t, e) == [tag |-> t, key |-> << >>, err |-> e]

\* Mutant: `key <= N`, so that n itself is accepted.
from_str_AcceptsN(privkey_as_str) ==
    IF str_len(privkey_as_str) > 64 THEN Err("InvalidSize", NoErr)
    ELSE LET padded == IF str_len(privkey_as_str) < 64
                       THEN format_pad(privkey_as_str, 64)
                       ELSE privkey_as_str
             dec == Key_from_str(padded)
         IN  IF dec.err.kind # "None" THEN Err("InvalidHex", dec.err)
             ELSE IF ~VecLess(N_bytes, dec.bytes) THEN Ok(dec.bytes)
             ELSE Err("GreaterThanCurveOrder", NoErr)

\* Mutant: the size is checked on the decoded bytes, after the decoding.
from_str_SizeAfterDecode(privkey_as_str) ==
    LET padded == IF str_len(privkey_as_str) < 64
                  THEN format_pad(privkey_as_str, 64)
                  ELSE privkey_as_str
        dec == Key_from_str(padded)
    IN  IF dec.err.kind # "None" THEN Err("InvalidHex", dec.err)
        ELSE IF Len(dec.bytes) > 32 THEN Err("InvalidSize", NoErr)
        ELSE IF VecLess(dec.bytes, N_bytes) THEN Ok(dec.bytes)
        ELSE Err("GreaterThanCurveOrder", NoErr)

\* Mutant: "{:0<width$}", the zeros on the right.
from_str_PadsRight(privkey_as_str) ==
    IF str_len(privkey_as_str) > 64 THEN Err("InvalidSize", NoErr)
    ELSE LET padded == IF str_len(privkey_as_str) < 64
                       THEN privkey_as_str \o Repeat(48, 64 - Len(privkey_as_str))
                       ELSE privkey_as_str
             dec == Key_from_str(padded)
         IN  IF dec.err.kind # "None" THEN Err("InvalidHex", dec.err)
             ELSE IF VecLess(dec.bytes, N_bytes) THEN Ok(dec.bytes)
             ELSE Err("GreaterThanCurveOrder", NoErr)

\* Mutant: the comparison the wrong way round, `N < key`.
from_str_ComparesBackwards(privkey_as_str) ==
    IF str_len(privkey_as_str) > 64 THEN Err("InvalidSize", NoErr)
    ELSE LET padded == IF str_len(privkey_as_str) < 64
                       THEN format_pad(privkey_as_str, 64)
                       ELSE privkey_as_str
             dec == Key_from_str(padded)
         IN  IF dec.err.kind # "None" THEN Err("InvalidHex", dec.err)
             ELSE IF VecLess(N_bytes, dec.bytes) THEN Ok(dec.bytes)
             ELSE Err("GreaterThanCurveOrder", NoErr)

from_str(privkey_as_str) ==
    IF str_len(privkey_as_str) > 64 THEN Err("InvalidSize", NoErr)
    ELSE LET padded == IF str_len(privkey_as_str) < 64
                       THEN format_pad(privkey_as_str, 64)
                       ELSE privkey_as_str
             dec == Key_from_str(padded)
         IN  IF dec.err.kind # "None" THEN Err("InvalidHex", dec.err)
             ELSE IF VecLess(dec.bytes, N_bytes) THEN Ok(dec.bytes)
             ELSE Err("GreaterThanCurveOrder", NoErr)


(***************************************************************************)
(* Big-number helpers of the libraries: bs58::encode and BigUint.          *)
(***************************************************************************)
\* "123456789ABCDEFGHJKLMNPQRSTUVWXYZabcdefghijkmnopqrstuvwxyz"
Base58Alphabet ==
    << 49, 50, 51, 52, 53, 54, 55, 56, 57, 65, 66, 67, 68, 69, 70, 71,
       72, 74, 75, 76, 77, 78, 80, 81, 82, 83, 84, 85, 86, 87, 88, 89,
       90, 97, 98, 99, 100, 101, 102, 103, 104, 105, 106, 107, 109, 110, 111, 112,
       113, 114, 115, 116, 117, 118, 119, 120, 121, 122 >>

RECURSIVE B58Carry(_)
\* bs58: `while carry > 0 { output[index] = carry % 58; carry /= 58 }`
B58Carry(carry) ==
    IF carry = 0 THEN << >> ELSE << carry % 58 >> \o B58Carry(carry \div 58)

RECURSIVE B58Fold(_, _, _, _)
\* bs58: `carry += digit << 8; digit = carry % 58; carry /= 58` over the
\* digits lo..hi (little-endian): the new digits and the carry out.
B58Fold(digits, lo, hi, carry) ==
    IF lo > hi THEN [ds |-> << >>, carry |-> carry]
    ELSE IF lo = hi
         THEN LET c == carry + digits[lo] * 256
              IN  [ds |-> << c % 58 >>, carry |-> c \div 58]
    ELSE LET mid == (lo + hi) \div 2
             l == B58Fold(digits, lo, mid, carry)
             r == B58Fold(digits, mid + 1, hi, l.carry)
         IN  [ds |-> l.ds \o r.ds, carry |-> r.carry]

\* bs58: one input byte folded into the digits found so far.
B58AddByte(digits, byte) ==
    LET f == B58Fold(digits, 1, Len(digits), byte)
    IN  f.ds \o B58Carry(f.carry)

RECURSIVE B58Digits(_, _, _, _)
\* bs58: the loop `for &val in input` over bytes lo..hi.
B58Digits(bytes, lo, hi, digits) ==
    IF lo > hi THEN digits
    ELSE IF lo = hi THEN B58AddByte(digits, bytes[lo])
    ELSE LET mid == (lo + hi) \div 2
             left == B58Digits(bytes, lo, mid, digits)
         IN  After(left, B58Digits(bytes, mid + 1, hi, left))

\* input.iter().take_while(|v| **v == 0).count()
LeadingZeros(bytes) ==
    LET nz == {i \in 1..Len(bytes) : bytes[i] # 0}
    IN  IF nz = {} THEN Len(bytes)
        ELSE (CHOOSE i \in nz : \A j \in nz : i <= j) - 1

\* bs58::encode(bytes).into_string(): the digits, one zero digit per leading
\* zero byte, each mapped through the alphabet, the whole reversed.
bs58_encode(bytes) ==
    LET digits == B58Digits(bytes, 1, Len(bytes), << >>)
                  \o Repeat(0, LeadingZeros(bytes))
    IN  Reverse([i \in 1..Len(digits) |-> Base58Alphabet[digits[i] + 1]])

RECURSIVE DivPass(_, _, _, _, _)
\* One long division of bytes lo..hi of a big-endian base-256 number by
\* `radix`: the quotient's bytes and the remainder.
DivPass(bytes, radix, lo, hi, carry) ==
    IF lo > hi THEN [q |-> << >>, rem |-> carry]
    ELSE IF lo = hi
         THEN LET cur == carry * 256 + bytes[lo]
              IN  [q |-> << cur \div radix >>, rem |-> cur % radix]
    ELSE LET mid == (lo + hi) \div 2
             l == DivPass(bytes, radix, lo, mid, carry)
             r == DivPass(bytes, radix, mid + 1, hi, l.rem)
         IN  [q |-> l.q \o r.q, rem |-> r.rem]

\* A big-endian number without its leading zero digits (BigUint normalises).
StripZeros(ds) == SubSeq(ds, LeadingZeros(ds) + 1, Len(ds))

\* BigUint::from_bytes_be(bytes): the number, as its normalised bytes.
from_bytes_be(bytes) == StripZeros(bytes)

RECURSIVE DecLoop(_, _, _)
\* `rounds` rounds of "divide by 10 and keep the remainder" on st.n, a round
\* doing nothing once the number is zero; st.ds are the decimal digits found,
\* the least significant first.
DecLoop(st, lo, hi) ==
    IF lo > hi THEN st
    ELSE IF lo = hi
         THEN IF st.n = << >> THEN st
              ELSE LET d == DivPass(st.n, 10, 1, Len(st.n), 0)
                   IN  [n |-> StripZeros(d.q), ds |-> Append(st.ds, 48 + d.rem)]
    ELSE LET mid == (lo + hi) \div 2
             left == DecLoop(st, lo, mid)
         IN  After(left, DecLoop(left, mid + 1, hi))

\* format!("{}", BigUint): "0" for zero, else the digits without leading
\* zeros (a byte gives less than three decimal digits).
biguint_to_string(n) ==
    IF n = << >> THEN << 48 >>
    ELSE Reverse(DecLoop([n |-> n, ds |-> << >>], 1, 3 * Len(n)).ds)

(***************************************************************************)
(* Key::append_checksum.  The digest of the real program is a double       *)
(* SHA-256; here it is a stand-in with the one property the serialisations *)
(* rely on: four bytes that depend on every byte of the sequence and on    *)
(* its position.                                                           *)
(***************************************************************************)
RECURSIVE Digest(_, _, _, _, _)
\* acc := (acc * mult + byte + 1) % 251 over bytes lo..hi.
Digest(bytes, mult, lo, hi, acc) ==
    IF lo > hi THEN acc
    ELSE IF lo = hi THEN (acc * mult + bytes[lo] + 1) % 251
    ELSE LET mid == (lo + hi) \div 2
             left == Digest(bytes, mult, lo, mid, acc)
         IN  After(left, Digest(bytes, mult, mid + 1, hi, left))

\* The first four bytes of the digest of the digest of `bytes`.
checksum(bytes) ==
    LET once == << >> \o [i \in 1..8 |-> Digest(bytes, 2 * i + 1, 1, Len(bytes), i)]
    IN  << >> \o [i \in 1..4 |-> Digest(once, 2 * i + 29, 1, 8, i)]

\* self.append_checksum(): the checksum of the whole buffer, appended.
append_checksum(bytes) == bytes \o checksum(bytes)

(***************************************************************************)
(* The serialisations of PrivateKey.  Each takes the key buffer and gives  *)
(* the buffer it leaves behind and the string it returns.                  *)
(***************************************************************************)
\* Mutant: the marker pushed here too, as in as_hex_compressed_string.
as_hex_string_Pushes(k) ==
    LET pushed == Append(k, 1)
    IN  [key |-> pushed, out |-> Key_as_hex_string(k)]

as_hex_string(k) == [key |-> k, out |-> Key_as_hex_string(k)]

\* Mutant: the marker inserted in front instead of pushed.
as_hex_compressed_string_MarkerFirst(k) ==
    LET pushed == << 1 >> \o k
    IN  [key |-> pushed, out |-> Key_as_hex_string(pushed)]

as_hex_compressed_string(k) ==
    LET pushed == Append(k, 1)
    IN  [key |-> pushed, out |-> Key_as_hex_string(pushed)]

\* Mutant: a serialisation of a copy, the buffer left as it was.
as_wif_OnCopy(k) ==
    LET inserted == << 128 >> \o k
        summed == append_checksum(inserted)
    IN  [key |-> k, out |-> bs58_encode(summed)]

as_wif(k) ==
    LET inserted == << 128 >> \o k
        summed == append_checksum(inserted)
    IN  [key |-> summed, out |-> bs58_encode(summed)]

\* Mutant: the marker pushed after the checksum.
as_wif_compressed_MarkerLast(k) ==
    LET inserted == << 128 >> \o k
        summed == append_checksum(inserted)
        pushed == Append(summed, 1)
    IN  [key |-> pushed, out |-> bs58_encode(pushed)]

as_wif_compressed(k) ==
    LET inserted == << 128 >> \o k
        pushed == Append(inserted, 1)
        summed == append_checksum(pushed)
    IN  [key |-> summed, out |-> bs58_encode(summed)]

\* Mutant: BigUint::from_bytes_le.
as_decimals_LittleEndian(k) ==
    [key |-> k, out |-> biguint_to_string(from_bytes_be(Reverse(k)))]

as_decimals(k) == [key |-> k, out |-> biguint_to_string(from_bytes_be(k))]

(***************************************************************************)
(* The inputs the model feeds to from_str.                                 *)
(***************************************************************************)
\* '1', 'F', 'a', 'v' (no hex digit) and U+00E9 (two bytes in UTF-8).
Alphabet == {49, 70, 97, 118, 233}

RECURSIVE StringsOfLen(_)
\* Every string of n chars of the alphabet.
StringsOfLen(n) ==
    IF n = 0 THEN {<< >>}
    ELSE {Append(s, c) : s \in StringsOfLen(n - 1), c \in Alphabet}

ShortInputs == UNION {StringsOfLen(l) : l \in 0..MaxLen}

\* ASCII lowercase of a string.
Lower(s) == [i \in 1..Len(s) |-> IF s[i] >= 65 /\ s[i] <= 90 THEN s[i] + 32 ELSE s[i]]

\* The curve order with one char replaced by '0', 'f', 'v' or U+00E9.
NearN == {[N EXCEPT ![i] = c] : i \in 1..64, c \in {48, 102, 118, 233}}

\* PRIVATE_KEY of the tests (the input of line 173 without its last digit).
PRIVATE_KEY ==
    << 49, 101, 57, 57, 52, 50, 51, 97, 52, 101, 100, 50, 55, 54, 48, 56,
       97, 49, 53, 97, 50, 54, 49, 54, 97, 50, 98, 48, 101, 57, 101, 53,
       50, 99, 101, 100, 51, 51, 48, 97, 99, 53, 51, 48, 101, 100, 99, 99,
       51, 50, 99, 56, 102, 102, 99, 54, 97, 53, 50, 54, 97, 101, 100, 100 >>

FullInputs ==
    {N, Lower(N), PRIVATE_KEY, Repeat(48, 64), Repeat(70, 64), Repeat(102, 64),
     Repeat(233, 32), Repeat(118, 64)}

\* More than 64 bytes: a longer PRIVATE_KEY (line 173), a leading zero before
\* n - 1, zeros only, no hex digit at all, and 33 two-byte chars.
LongInputs ==
    {Append(PRIVATE_KEY, 100), << 48 >> \o [N EXCEPT ![64] = 48], Repeat(48, 65),
     Repeat(118, 65), Append(N, 118), Repeat(233, 33), Repeat(102, 66)}

\* n - 1 and n + 1 (line 142).
NMinus1 == [N EXCEPT ![64] = 48]
NPlus1 == [N EXCEPT ![64] = 50]

\* The inputs whose key the serialisations are then called on.
Inputs ==
    ShortInputs \cup FullInputs \cup LongInputs
    \cup {NMinus1, NPlus1, [N EXCEPT ![1] = 48], [N EXCEPT ![32] = 102]}

\* The inputs of the runs that only construct: every char of n replaced too.
WideInputs == Inputs \cup NearN

(***************************************************************************)
(* The state machine: one caller, one PrivateKey.                          *)
(***************************************************************************)
VARIABLES
    input,    \* the string handed to from_str
    result,   \* what from_str returned
    alive,    \* the caller still owns a PrivateKey
    key,      \* self.key of that PrivateKey
    op,       \* the last method called
    before,   \* self.key when that method was entered
    out,      \* the string that method returned
    nwif,     \* as_wif calls made on the key
    nwifc     \* as_wif_compressed calls made on the key

vars == << input, result, alive, key, op, before, out, nwif, nwifc >>

Init ==
    /\ input = << >>
    /\ result = [tag |-> "None", key |-> << >>, err |-> NoErr]
    /\ alive = FALSE
    /\ key = << >>
    /\ op = "none"
    /\ before = << >>
    /\ out = << >>
    /\ nwif = 0
    /\ nwifc = 0

\* let pk = PrivateKey::from_str(s);  for an s of the set S
Construct(S) ==
    /\ op = "none"
    /\ \E s \in S :
         /\ input' = s
         /\ result' = from_str(s)
    /\ alive' = (result'.tag = "Ok")
    /\ key' = result'.key
    /\ op' = "from_str"
    /\ UNCHANGED << before, out, nwif, nwifc >>

FromStr == Construct(Inputs)

FromStrWide == Construct(WideInputs)

\* pk.as_hex_string()  (&mut self)
AsHexString ==
    /\ alive
    /\ LET r == as_hex_string(key)
       IN  key' = r.key /\ out' = r.out
    /\ before' = key
    /\ op' = "as_hex_string"
    /\ UNCHANGED << input, result, alive, nwif, nwifc >>

\* pk.as_hex_compressed_string()  (self: the key is moved and dropped)
AsHexCompressedString ==
    /\ alive
    /\ out' = as_hex_compressed_string(key).out
    /\ before' = key
    /\ key' = << >>
    /\ alive' = FALSE
    /\ op' = "as_hex_compressed_string"
    /\ UNCHANGED << input, result, nwif, nwifc >>

\* pk.as_wif()  (&mut self)
AsWif ==
    /\ alive
    /\ nwif + nwifc < MaxCalls
    /\ LET r == as_wif(key)
       IN  key' = r.key /\ out' = r.out
    /\ before' = key
    /\ nwif' = nwif + 1
    /\ op' = "as_wif"
    /\ UNCHANGED << input, result, alive, nwifc >>

\* pk.as_wif_compressed()  (&mut self)
AsWifCompressed ==
    /\ alive
    /\ nwif + nwifc < MaxCalls
    /\ LET r == as_wif_compressed(key)
       IN  key' = r.key /\ out' = r.out
    /\ before' = key
    /\ nwifc' = nwifc + 1
    /\ op' = "as_wif_compressed"
    /\ UNCHANGED << input, result, alive, nwif >>

\* pk.as_decimals()  (self: the key is moved and dropped)
AsDecimals ==
    /\ alive
    /\ out' = as_decimals(key).out
    /\ before' = key
    /\ key' = << >>
    /\ alive' = FALSE
    /\ op' = "as_decimals"
    /\ UNCHANGED << input, result, nwif, nwifc >>

Next ==
    \/ FromStr
    \/ AsHexString
    \/ AsHexCompressedString
    \/ AsWif
    \/ AsWifCompressed
    \/ AsDecimals

Spec == Init /\ [][Next]_vars

\* The runs that only construct a key, from the wider set of inputs.
NextFromStr == FromStrWide

SpecFromStr == Init /\ [][NextFromStr]_vars

(***************************************************************************)
(* Arithmetic the claims are stated with.  It is independent of the        *)
(* operators above: numbers are built digit by digit (acc * radix + d) and *)
(* compared by subtraction with borrow.                                    *)
(***************************************************************************)
RECURSIVE MulAddRange(_, _, _, _, _)
\* Digits lo..hi of le * radix + carry (little-endian base 256) and the
\* carry out.
MulAddRange(le, radix, lo, hi, carry) ==
    IF lo > hi THEN [ds |-> << >>, carry |-> carry]
    ELSE IF lo = hi
         THEN LET v == le[lo] * radix + carry
              IN  [ds |-> << v % 256 >>, carry |-> v \div 256]
    ELSE LET mid == (lo + hi) \div 2
             l == MulAddRange(le, radix, lo, mid, carry)
             r == MulAddRange(le, radix, mid + 1, hi, l.carry)
         IN  [ds |-> l.ds \o r.ds, carry |-> r.carry]

\* le * radix + d for a digit d < radix <= 256: the carry out is one byte.
MulAddLE(le, radix, d) ==
    LET m == MulAddRange(le, radix, 1, Len(le), d)
    IN  IF m.carry = 0 THEN m.ds ELSE Append(m.ds, m.carry)

RECURSIVE NatLE(_, _, _, _, _)
\* The number written by digits lo..hi (most significant first) in `radix`,
\* accumulated onto acc, as little-endian base-256 digits.
NatLE(digits, radix, lo, hi, acc) ==
    IF lo > hi THEN acc
    ELSE IF lo = hi THEN MulAddLE(acc, radix, digits[lo])
    ELSE LET mid == (lo + hi) \div 2
             left == NatLE(digits, radix, lo, mid, acc)
         IN  After(left, NatLE(digits, radix, mid + 1, hi, left))

\* The number as big-endian bytes without leading zero bytes.
NatOf(digits, radix) == StripZeros(Reverse(NatLE(digits, radix, 1, Len(digits), << >>)))

\* The number as exactly (or at least) 32 big-endian bytes.
Pad32(n) == Repeat(0, 32 - Len(n)) \o n

RECURSIVE Borrow(_, _, _, _, _)
\* The borrow out of byte lo when b is subtracted from a (same length) over
\* bytes lo..hi, byte hi first, with the borrow `bin` into byte hi.
Borrow(a, b, lo, hi, bin) ==
    IF lo > hi THEN bin
    ELSE IF lo = hi THEN (IF a[lo] - b[lo] - bin < 0 THEN 1 ELSE 0)
    ELSE LET mid == (lo + hi) \div 2
             right == Borrow(a, b, mid + 1, hi, bin)
         IN  After(right, Borrow(a, b, lo, mid, right))

\* a < b as unsigned integers: a - b borrows out of the top byte.
IntLess(a, b) == Borrow(a, b, 1, Len(a), 0) = 1

IsHexChar(c) == c \in 48..57 \cup 65..70 \cup 97..102
AllHex(s) == \A i \in 1..Len(s) : IsHexChar(s[i])
HexVals(s) == [i \in 1..Len(s) |-> HexVal(s[i])]

\* The integer a hex string denotes, and the one a decimal string denotes.
HexValue(s) == NatOf(HexVals(s), 16)
DecValue(s) == NatOf([i \in 1..Len(s) |-> s[i] - 48], 10)

\* n as an integer.
NValue == Pad32(HexValue(N))

\* The position of the first char of s that is no hex digit.
FirstBad(s) == CHOOSE i \in 1..Len(s) :
                 /\ ~IsHexChar(s[i])
                 /\ \A j \in 1..(i - 1) : IsHexChar(s[j])

\* The index of a char in the Base58 alphabet, from 0.
B58Index(c) == CHOOSE i \in 0..57 : Base58Alphabet[i + 1] = c

\* Base58 decoding: a zero byte per leading '1', then the number.
Base58Decode(str) ==
    LET ds == [i \in 1..Len(str) |-> B58Index(str[i])]
    IN  Repeat(0, LeadingZeros(ds)) \o NatOf(ds, 58)

Called == op # "none"
\* The last method was called on the key as from_str returned it.
OnFreshKey == result.tag = "Ok" /\ before = result.key

(***************************************************************************)
(* C1.  from_str and the curve order.                                      *)
(***************************************************************************)
\* C1: for every input of at most 64 valid hex characters, from_str succeeds
\* exactly when the zero-left-padded 32-byte value, read as an unsigned
\* big-endian integer, is strictly less than n, and fails with
\* GreaterThanCurveOrder otherwise; n and n + 1 are rejected, n - 1 is
\* accepted, and the key returned is that 32-byte value.
C1_BelowCurveOrder ==
    (Called /\ Len(input) <= 64 /\ AllHex(input)) =>
        /\ IF IntLess(Pad32(HexValue(input)), NValue)
           THEN result.tag = "Ok" /\ result.key = Pad32(HexValue(input))
           ELSE result.tag = "GreaterThanCurveOrder"
        /\ input \in {N, NPlus1} => result.tag = "GreaterThanCurveOrder"
        /\ input = NMinus1 => result.tag = "Ok"

C1_Witness == input = NMinus1 /\ result.tag = "Ok"

(***************************************************************************)
(* C2.  InvalidSize comes first.                                           *)
(***************************************************************************)
\* C2: for every input longer than 64 characters from_str fails with
\* InvalidSize whatever the content (non-hex characters, a value below n
\* behind leading zeros), and no key is constructed.
C2_InvalidSizeFirst ==
    (Called /\ Len(input) > 64) =>
        /\ result.tag = "InvalidSize"
        /\ result.key = << >>
        /\ ~alive
        /\ key = << >>

C2_Witness ==
    /\ Len(input) = 65
    /\ ~AllHex(input)
    /\ AllHex(SubSeq(input, 1, 64))
    /\ result.tag = "InvalidSize"

(***************************************************************************)
(* C3.  InvalidHex carries the first offending character and its index.    *)
(***************************************************************************)
\* C3: for every input of length L <= 64 with at least one non-hex character
\* from_str fails with InvalidHex carrying the first offending character and
\* its zero-based index in the 64-character padded string (position in the
\* input plus 64 - L), whatever the value of the other digits.
C3_InvalidHexCarriesChar ==
    (Called /\ Len(input) <= 64 /\ ~AllHex(input)) =>
        /\ result.tag = "InvalidHex"
        /\ result.err.kind = "InvalidHexCharacter"
        /\ result.err.c = input[FirstBad(input)]
        /\ result.err.index = (FirstBad(input) - 1) + (64 - Len(input))

(***************************************************************************)
(* C4.  Short inputs are left-padded with zeros.                           *)
(***************************************************************************)
\* The key from_str builds from a valid hex input shorter than 64 chars:
\* it exists, is 32 bytes long and denotes the integer the input denotes.
C4_PaddedKey ==
    /\ result.tag = "Ok"
    /\ Len(result.key) = 32
    /\ result.key = Pad32(HexValue(input))

\* C4 as stated: for every valid hex input shorter than 64 characters the
\* key is 32 bytes, denotes the input's integer, and as_hex_string on the
\* fresh key returns (64 - L) zeros followed by the input digits.
C4_PadsInputDigits ==
    (Called /\ Len(input) < 64 /\ AllHex(input)) =>
        /\ C4_PaddedKey
        /\ (op = "as_hex_string" /\ OnFreshKey) =>
               out = Repeat(48, 64 - Len(input)) \o input

\* C4 amended: as_hex_string on the fresh key returns (64 - L) zeros
\* followed by the input digits in lowercase.
C4_PadsLowercasedDigits ==
    (Called /\ Len(input) < 64 /\ AllHex(input)) =>
        /\ C4_PaddedKey
        /\ (op = "as_hex_string" /\ OnFreshKey) =>
               out = Repeat(48, 64 - Len(input)) \o Lower(input)

C4_Witness ==
    /\ input = << 70, 97 >>
    /\ op = "as_hex_string"
    /\ OnFreshKey
    /\ out = Repeat(48, 62) \o << 102, 97 >>

(***************************************************************************)
(* C5.  The round trip of a 64-digit input.                                *)
(***************************************************************************)
\* A 64-digit valid hex input below n.
C5_Case ==
    /\ Called
    /\ Len(input) = 64
    /\ AllHex(input)
    /\ IntLess(Pad32(HexValue(input)), NValue)

\* C5 as stated: for all valid 64-hex-character inputs below n, digits in
\* either case, construction succeeds and as_hex_string on the fresh key
\* returns the input character for character.
C5_RoundTripExact ==
    C5_Case =>
        /\ result.tag = "Ok"
        /\ (op = "as_hex_string" /\ OnFreshKey) => out = input

\* C5 amended: as_hex_string on the fresh key returns the input in
\* lowercase, so the input itself exactly when it has no uppercase digit.
C5_RoundTripLowercase ==
    C5_Case =>
        /\ result.tag = "Ok"
        /\ (op = "as_hex_string" /\ OnFreshKey) =>
               /\ out = Lower(input)
               /\ (out = input) <=> (\A i \in 1..64 : input[i] \notin 65..70)

C5_Witness ==
    /\ input = PRIVATE_KEY
    /\ op = "as_hex_string"
    /\ OnFreshKey
    /\ out = PRIVATE_KEY

(***************************************************************************)
(* C6.  The compressed hex string.                                         *)
(***************************************************************************)
\* C6: on a freshly constructed key as_hex_compressed_string returns what
\* as_hex_string returns on that key followed by "01": 66 characters, the
\* hex of the 32 key bytes and of the marker byte 0x01.
C6_CompressedIsHexPlus01 ==
    (op = "as_hex_compressed_string" /\ OnFreshKey) =>
        /\ out = as_hex_string(result.key).out \o << 48, 49 >>
        /\ Len(out) = 66
        /\ to_byte_array(out) = Append(result.key, 1)

C6_Witness ==
    /\ op = "as_hex_compressed_string"
    /\ OnFreshKey
    /\ input = PRIVATE_KEY
    /\ out = PRIVATE_KEY \o << 48, 49 >>

(***************************************************************************)
(* C7.  WIF and compressed WIF of a fresh key.                             *)
(***************************************************************************)
\* C7: on a fresh key K, as_wif returns the Base58 of the 37 bytes
\* 0x80 ++ K ++ C and as_wif_compressed that of the 38 bytes
\* 0x80 ++ K ++ 0x01 ++ C, C being the checksum of all the bytes before it;
\* decoding the string gives back the version byte, the key, the marker and
\* a checksum equal to the recomputed one.
C7_WifDecodes ==
    /\ (op = "as_wif" /\ OnFreshKey) =>
          LET d == Base58Decode(out)
          IN  /\ Len(d) = 37
              /\ SubSeq(d, 1, 33) = << 128 >> \o result.key
              /\ SubSeq(d, 34, 37) = checksum(SubSeq(d, 1, 33))
    /\ (op = "as_wif_compressed" /\ OnFreshKey) =>
          LET d == Base58Decode(out)
          IN  /\ Len(d) = 38
              /\ SubSeq(d, 1, 34) = << 128 >> \o result.key \o << 1 >>
              /\ SubSeq(d, 35, 38) = checksum(SubSeq(d, 1, 34))

C7_Witness ==
    /\ op = "as_wif_compressed"
    /\ OnFreshKey
    /\ input = PRIVATE_KEY
    /\ Len(out) = 52

(***************************************************************************)
(* C8.  as_hex_string reads the buffer and leaves it alone.                *)
(***************************************************************************)
\* The string is the lowercase hex of the buffer.
C8_IsLowerHexOf(str, bytes) ==
    /\ \A i \in 1..Len(str) : str[i] \in 48..57 \cup 97..102
    /\ Len(str) = 2 * Len(bytes)
    /\ HexValue(str) = StripZeros(bytes)

\* C8 as stated: in every state any sequence of operations reaches,
\* as_hex_string leaves the buffer unmodified and returns its lowercase hex
\* encoding, 64 characters long.
C8_Always64Chars ==
    op = "as_hex_string" =>
        /\ key = before
        /\ C8_IsLowerHexOf(out, key)
        /\ Len(out) = 64

\* C8 amended: every as_hex_string call leaves the buffer, the key and
\* what the caller can still do with it as they were, and returns the
\* lowercase hex encoding of the current buffer, two characters per byte:
\* 64 characters on a key no WIF operation has been called on, and
\* 64 + 10 j + 12 k after j as_wif and k as_wif_compressed calls.
C8_HexOfCurrentBuffer ==
    [][ op' = "as_hex_string" =>
          /\ key' = key
          /\ before' = key
          /\ UNCHANGED << input, result, alive, nwif, nwifc >>
          /\ alive'
          /\ C8_IsLowerHexOf(out', key)
          /\ Len(out') = 64 + 10 * nwif + 12 * nwifc
      ]_vars

C8_Witness ==
    /\ op = "as_hex_string"
    /\ nwif = 1
    /\ nwifc = 0
    /\ key = before
    /\ Len(out) = 74

(***************************************************************************)
(* C9.  The decimal string.                                                *)
(***************************************************************************)
\* The decimal expansion of n - 1.
NMinus1Decimal ==
    << 49, 49, 53, 55, 57, 50, 48, 56, 57, 50, 51, 55, 51, 49, 54, 49,
       57, 53, 52, 50, 51, 53, 55, 48, 57, 56, 53, 48, 48, 56, 54, 56,
       55, 57, 48, 55, 56, 53, 50, 56, 51, 55, 53, 54, 52, 50, 55, 57,
       48, 55, 52, 57, 48, 52, 51, 56, 50, 54, 48, 53, 49, 54, 51, 49,
       52, 49, 53, 49, 56, 49, 54, 49, 52, 57, 52, 51, 51, 54 >>

\* The expected string of should_convert_to_expected_decimal_string.
PRIVATE_KEY_Decimal ==
    << 49, 51, 56, 52, 48, 49, 55, 48, 49, 52, 53, 54, 52, 53, 56, 49,
       54, 55, 51, 55, 56, 52, 50, 50, 53, 49, 52, 56, 50, 55, 52, 55,
       52, 51, 52, 50, 56, 48, 51, 53, 55, 49, 49, 51, 55, 54, 50, 53,
       53, 56, 52, 48, 51, 53, 53, 56, 48, 56, 56, 50, 52, 57, 49, 51,
       56, 50, 51, 51, 50, 56, 54, 55, 54, 54, 51, 48, 49 >>

\* C9: as_decimals renders the key, read as an unsigned big-endian integer,
\* in base 10 without leading zeros: "0" for the all-zero key, the decimal
\* expansion of n - 1 for the largest key, and for every key a string that
\* denotes the integer the key's hex string denotes.
C9_DecimalOfKey ==
    (op = "as_decimals" /\ OnFreshKey) =>
        /\ Len(out) >= 1
        /\ \A i \in 1..Len(out) : out[i] \in 48..57
        /\ Len(out) > 1 => out[1] # 48
        /\ DecValue(out) = HexValue(as_hex_string(result.key).out)
        /\ DecValue(out) = StripZeros(result.key)
        /\ Len(out) <= 78
        /\ result.key = Repeat(0, 32) => out = << 48 >>
        /\ input = NMinus1 => out = NMinus1Decimal
        /\ input = PRIVATE_KEY => out = PRIVATE_KEY_Decimal

C9_Witness ==
    /\ op = "as_decimals"
    /\ OnFreshKey
    /\ input = NMinus1
    /\ out = NMinus1Decimal

(***************************************************************************)
(* C10.  The WIF operations mutate the buffer; the by-value ones end it.   *)
(***************************************************************************)
WifOps == {"as_wif", "as_wif_compressed"}

\* C10: after j as_wif and k as_wif_compressed calls the buffer is
\* 32 + 5 j + 6 k bytes long; each call wraps the whole buffer it finds in a
\* new 0x80 prefix (and marker) and checksum, so only the first call on a
\* fresh key encodes the key and a call that follows another returns a
\* different string; nothing is called on a key after
\* as_hex_compressed_string or as_decimals, which take it by value.
C10_WifMutatesInPlace ==
    [][ /\ alive' => Len(key') = 32 + 5 * nwif' + 6 * nwifc'
        /\ op' = "as_wif" =>
              key' = << 128 >> \o key \o checksum(<< 128 >> \o key)
        /\ op' = "as_wif_compressed" =>
              key' = << 128 >> \o key \o << 1 >> \o checksum(<< 128 >> \o key \o << 1 >>)
        /\ op' \in WifOps => Base58Decode(out') = key'
        /\ (op' \in WifOps /\ nwif + nwifc >= 1) =>
              /\ key' \notin {as_wif(result.key).key, as_wif_compressed(result.key).key}
              /\ op \in WifOps => out' # out
        /\ op \notin {"as_hex_compressed_string", "as_decimals"}
        /\ op' \in {"as_hex_compressed_string", "as_decimals"} => ~alive'
      ]_vars

C10_Witness ==
    /\ op = "as_wif"
    /\ nwif = 1
    /\ nwifc = 1
    /\ Len(key) = 43

=============================================================================
